---- MODULE Spec2Model ----
(***************************************************************************)
(* A model of the static control flow library of cppnow2016:               *)
(*   static_if  (impl/static_if.hpp, listed in src/unnamed/part_000),      *)
(*   state      (impl/static_for_state.hpp, listed in impl/y_combinator.hpp)*)
(*   static_for (impl/static_for.hpp) and y_combinator,                    *)
(* and of the examples that use them: the loops of p09.cpp and p10.cpp,    *)
(* the run-time loop of p09.cpp and the factorial of p10.cpp.              *)
(* Compile-time values are modelled by what the compiler computes for      *)
(* them: a C++ object is a pair (type, run-time value), and a type that    *)
(* encodes its value (std::integral_constant) has one value only.          *)
(***************************************************************************)
EXTENDS Integers, Sequences, FiniteSets, TLC

(***************************************************************************)
(* Bounds of the model.                                                    *)
(***************************************************************************)
\* longest chain: static_if followed by MaxOps - 1 extension operations
MaxOps == 6
\* most arguments of a terminal call
MaxArgs == 1
\* most terminal calls made on one chain
MaxCalls == 2

\* longest input sequence of a loop, the documented examples apart
MaxLen == 3
\* most invocations of one curried loop entry point static_for(body)(init)
MaxRuns == 2
\* largest argument of factorial
MaxN == 2
\* most calls of factorial_impl the stack holds at once
MaxDepth == 6
\* most arguments of for_args, the documented call apart
MaxPack == 3
\* largest iteration index of the states the state operations start from
MaxItr == 2

(***************************************************************************)
(* static_if: chain values.                                                *)
(* A chain value is an object of one of three types:                       *)
(*   static_if_impl<true>, static_if_impl<false>, static_if_result<TF>.    *)
(* The only data member is the handler a static_if_result inherits from.   *)
(***************************************************************************)
NoHandler == 0

static_if_impl(TPredicateResult) ==
    [kind |-> "static_if_impl", pred |-> TPredicateResult, f |-> NoHandler]

static_if_result(f) ==
    [kind |-> "static_if_result", pred |-> TRUE, f |-> f]

make_static_if_result(f) == static_if_result(f)

static_if(TPredicate) == static_if_impl(TPredicate)

IsResult(c) == c.kind = "static_if_result"
IsImplTrue(c) == c.kind = "static_if_impl" /\ c.pred
IsImplFalse(c) == c.kind = "static_if_impl" /\ ~c.pred

\* then that never resolves the chain
then_discards(c, f) == c

\* then that resolves the chain whatever the pending predicate is
then_any_predicate(c, f) ==
    IF c.kind = "static_if_impl" THEN make_static_if_result(f) ELSE c

\* static_if_impl<true>::then, static_if_impl<false>::then,
\* static_if_result::then
then(c, f) ==
    IF IsImplTrue(c) THEN make_static_if_result(f) ELSE c

\* else_ that resolves every open chain, a true pending predicate included
else_on_any_open(c, f) ==
    IF c.kind = "static_if_impl" THEN make_static_if_result(f) ELSE c

\* else_ that replaces the handler of a resolved chain
else_overrides_result(c, f) ==
    IF IsImplFalse(c) \/ IsResult(c) THEN make_static_if_result(f) ELSE c

\* static_if_impl<true>::else_, static_if_impl<false>::else_,
\* static_if_result::else_
else_(c, f) ==
    IF IsImplFalse(c) THEN make_static_if_result(f) ELSE c

\* else_if that opens its predicate on every open chain, a true pending
\* predicate included
else_if_on_any_open(c, TPredicate) ==
    IF c.kind = "static_if_impl" THEN static_if(TPredicate) ELSE c

\* else_if that opens a new predicate on a resolved chain too
else_if_reopens(c, TPredicate) ==
    IF IsImplFalse(c) \/ IsResult(c) THEN static_if(TPredicate) ELSE c

\* static_if_impl<true>::else_if, static_if_impl<false>::else_if,
\* static_if_result::else_if
else_if(c, TPredicate) ==
    IF IsImplFalse(c) THEN static_if(TPredicate) ELSE c

\* members that all return by value
ReturnsReference_never(c, op) == FALSE

\* TRUE when the member op of c is declared auto& and returns *this; the
\* others are declared auto and return a new object
ReturnsReference(c, op) ==
    \/ IsImplTrue(c) /\ op \in {"else_", "else_if"}
    \/ IsImplFalse(c) /\ op = "then"
    \/ IsResult(c)

\* every else_if reading its predicate
else_if_evaluates_always(c) == TRUE

\* TRUE when else_if on c constructs TPredicate{} and reads its value
\* (only static_if_impl<false>::else_if names its parameter's type)
else_if_evaluates(c) == IsImplFalse(c)

\* a call operator on every chain value
HasCallOperator_any(c) == TRUE

\* a static_if_impl<false> without its dummy call operator
HasCallOperator_no_dummy(c) == IsResult(c)

\* which chain values have a call operator: static_if_impl<false> declares
\* one, static_if_result inherits its handler's; static_if_impl<true> has none
HasCallOperator(c) == IsResult(c) \/ IsImplFalse(c)

\* a result whose call operator is not the handler's
CallInvokes_nothing(c) == <<>>

\* the handlers a terminal call on c runs, in order
CallInvokes(c) == IF IsResult(c) THEN <<c.f>> ELSE <<>>

\* the value of a handler call: handlers are opaque, their result names the
\* handler and the arguments it received
HandlerResult(h, args) == [h |-> h, args |-> args]

\* the empty result of static_if_impl<false>::operator()
Unit == [h |-> NoHandler, args |-> <<>>]

\* the value a terminal call on c returns
CallReturns(c, args) ==
    IF IsResult(c) THEN HandlerResult(c.f, args) ELSE Unit


(***************************************************************************)
(* Values.  A C++ object is [ty, val].  An integral constant (sz_v<N>,     *)
(* int_v<N>) and an empty struct have a type that fixes their value; an    *)
(* int has a run-time value its type does not fix.                         *)
(***************************************************************************)
\* val holds the 64 bits of a std::size_t read as a signed number: a
\* negative val stands for the std::size_t 2^64 + val
sz_v(n) == [ty |-> "sz", val |-> n]
int(n) == [ty |-> "int", val |-> n]
nothing == [ty |-> "nothing", val |-> 0]

\* decltype(v): the type of v; a type is written as its value-initialized
\* object, so the type of an int is int{} whatever the value of the int
decltype(v) == IF v.ty = "int" THEN int(0) ELSE v

\* T{}: a value-initialized object of type T
ValueInit(T) == T

(***************************************************************************)
(* impl::state<TItr, TAcc, TAction>: an empty struct, its three template   *)
(* arguments are all it carries.                                           *)
(***************************************************************************)
a_continue == "a_continue"
a_break == "a_break"

\* a state record that stores the accumulator object it is given
make_state_keeps_value(itr, acc, action) ==
    [TItr |-> itr, TAcc |-> acc, TAction |-> action]

make_state(itr, acc, action) ==
    [TItr |-> itr, TAcc |-> decltype(acc), TAction |-> action]

iteration(s) == s.TItr

accumulator(s) == ValueInit(s.TAcc)

\* a next_action() that never reports a break
next_action_always_continue(s) == a_continue

next_action(s) == s.TAction

\* advance_state that keeps the iteration index
advance_state_same_iteration(s, a, na) == make_state(iteration(s), a, na)

\* advance_state that skips an iteration index
advance_state_by_two(s, a, na) == make_state(iteration(s) + 2, a, na)

advance_state(s, a, na) == make_state(iteration(s) + 1, a, na)

\* continue_ that keeps the accumulator of s
continue_keeps_accumulator(s, new_acc) ==
    advance_state(s, accumulator(s), a_continue)

continue_(s, new_acc) == advance_state(s, new_acc, a_continue)

continue_0(s) == continue_(s, accumulator(s))

\* break_ that tags the new state a_continue
break_tagged_continue(s, new_acc) == advance_state(s, new_acc, a_continue)

break_(s, new_acc) == advance_state(s, new_acc, a_break)

break_0(s) == break_(s, accumulator(s))

(***************************************************************************)
(* y_combinator: the result object holds the wrapped function; calling it  *)
(* calls the function with a reference to the result object put first.     *)
(***************************************************************************)
y_combinator(f) == [f |-> f]

\* an operator() that hands the function a wrapper of its own, as the
\* recursion without a Y combinator does, in place of a reference to *this
y_combinator_call_passes_f(yc, xs) ==
    [fn |-> yc.f, self |-> [f |-> yc.f, copy |-> TRUE], args |-> xs]

\* y_combinator_result::operator()(xs...): the call _f(ref(*this), xs...)
y_combinator_call(yc, xs) == [fn |-> yc.f, self |-> yc, args |-> xs]

(***************************************************************************)
(* Loop bodies of the repository.  A body call returns the next state and  *)
(* the events it wrote.                                                    *)
(***************************************************************************)
Sentinel == -999

Event(kind, itr, x, acc) ==
    [kind |-> kind, iteration |-> itr, x |-> x, acc |-> acc]

\* print_even_and_accumulate of p09.cpp
\* a body that takes the sentinel for an ordinary element
body_peaa_no_break(s, x) ==
    [next |-> continue_(s, sz_v(accumulator(s).val + x)),
     out |-> IF x % 2 = 0
             THEN <<Event("even", iteration(s), x, 0)>>
             ELSE <<>>]

body_peaa(s, x) ==
    LET must_break == x = Sentinel
        even == x % 2 = 0
    IN IF must_break
       THEN [next |-> break_0(s), out |-> <<>>]
       ELSE [next |-> continue_(s, sz_v(accumulator(s).val + x)),
             out |-> IF even
                     THEN <<Event("even", iteration(s), x, 0)>>
                     ELSE <<>>]

\* the body of main of p10.cpp
body_p10(s, x) ==
    [next |-> continue_(s, sz_v(accumulator(s).val + x)),
     out |-> <<Event("visit", iteration(s), x, accumulator(s).val)>>]

\* the body of test0 of asm/traditional.cpp
body_keep(s, x) ==
    [next |-> continue_0(s),
     out |-> <<Event("store", 0, x, 0)>>]

\* a body that fails: it throws on the element 15 and continues otherwise
body_throwing(s, x) ==
    [next |-> continue_0(s), out |-> <<>>]

Bodies == {"peaa", "p10", "keep", "throwing"}

Body(b, s, x) ==
    CASE b = "peaa" -> body_peaa(s, x)
      [] b = "p10" -> body_p10(s, x)
      [] b = "keep" -> body_keep(s, x)
      [] b = "throwing" -> body_throwing(s, x)

\* TRUE when the call body(s, x) ends with an exception instead of a state
BodyThrows(b, s, x) == b = "throwing" /\ x = 15

\* the exception the call body(s, x) throws
Failure(s, x) == [thrown |-> TRUE, x |-> x, iteration |-> iteration(s)]

NoFailure == [thrown |-> FALSE, x |-> 0, iteration |-> 0]

\* the bodies that add to the accumulator need a numeric accumulator
Compiles(b, acc) == b \in {"keep", "throwing"} \/ acc.ty \in {"sz", "int"}

(***************************************************************************)
(* print_even_and_accumulate_runtime of p09.cpp: the run-time loop.        *)
(***************************************************************************)
RECURSIVE runtime_for(_, _, _, _)
runtime_for(acc, itr, printed, seq) ==
    IF seq = <<>> THEN [acc |-> acc, out |-> printed]
    ELSE LET x == Head(seq)
         IN IF x = Sentinel THEN [acc |-> acc, out |-> printed]
            ELSE runtime_for(acc + x, itr + 1,
                     IF x % 2 = 0
                     THEN Append(printed, Event("even", itr, x, 0))
                     ELSE printed,
                     Tail(seq))

print_even_and_accumulate_runtime(acc, seq) == runtime_for(acc, 0, <<>>, seq)

(***************************************************************************)
(* State.  One program runs: a static_if chain expression followed by      *)
(* terminal calls, one operation on a state record, static_for(body)(init) *)
(* called on xs..., the factorial example, or one for_args call.           *)
(***************************************************************************)
VARIABLES
    prog,       \* which program runs: "static_if", "state", "static_for"
    ops,        \* the chain expression so far: sequence of operations
    hist,       \* hist[i] is the chain value operation i returned
    objs,       \* the chain object each operation returned: a new object is
                \* named by the position of the operation that made it
    evaluated,  \* indices of the operations whose predicate was evaluated
    calls,      \* argument lists of the terminal calls made so far
    invoked,    \* handler invocations so far, each [h, args, call]
    rets        \* return values of the terminal calls made so far

VARIABLES
    st,         \* the state record s the operations are invoked on
    sop,        \* the operation last invoked on s, "none" before the first
    sarg,       \* the accumulator passed to it (its own for the overloads
                \* without argument)
    sres        \* the state record it returned

VARIABLES
    fbody,      \* the loop body
    recursion,  \* how step reaches itself: "y_combinator" (static_for.hpp,
                \* second static_for of p10.cpp) or "explicit_self" (first
                \* static_for of p10.cpp)
    init,       \* the initial accumulator
    xs,         \* the input sequence
    lpc,        \* "idle", "step" (a step call is about to run body),
                \* "return" (a result travels up the step calls), "done"
    frames,     \* the active step calls, innermost last
    visits,     \* the body invocations so far, each [state, x]
    out,        \* the events body wrote
    result,     \* the value returned, NoResult before
    thrown,     \* the exception in flight or delivered to the caller
    runs,       \* completed invocations of static_for(body)(init) before
                \* the current one
    prev,       \* what the previous invocation was given, did and returned
    rt          \* the run of the run-time loop on the same input

\* the factorial example of p10.cpp: factorial = y_combinator(factorial_impl)
VARIABLES
    fn,         \* the argument of factorial
    fpc,        \* "off", "idle", "run", "done" or how the stack ran out
    fstack,     \* active calls of factorial_impl, innermost last
    fcalls,     \* the calls of y_combinator_result::operator() so far
    frets,      \* the values factorial_impl returned so far
    fres        \* the value factorial returned, NoResult before

\* for_args(f, xs...) with the f of p05.cpp, which prints its argument
VARIABLES
    fa_xs,      \* the arguments xs..., each written as f prints it
    fa_pc,      \* "off", "idle", "run" or "done"
    fa_order,   \* the order in which the initializer clauses are evaluated
    fa_done,    \* the clauses evaluated so far, as the list holds them
    fa_calls,   \* the arguments f was called with so far, in order
    fa_ret      \* what for_args returned, NoResult before

chainvars == <<ops, hist, objs, evaluated, calls, invoked, rets>>
statevars == <<st, sop, sarg, sres>>
loopvars == <<fbody, recursion, init, xs, lpc, frames, visits, out, result,
              thrown, runs, prev, rt>>
factvars == <<fn, fpc, fstack, fcalls, frets, fres>>
argsvars == <<fa_xs, fa_pc, fa_order, fa_done, fa_calls, fa_ret>>
vars == <<prog, chainvars, statevars, loopvars, factvars, argsvars>>

NoResult == [ty |-> "none", val |-> 0]

\* the values of the variables of a program that does not run
ChainIdle ==
    /\ ops = <<>> /\ hist = <<>> /\ objs = <<>> /\ evaluated = {}
    /\ calls = <<>> /\ invoked = <<>> /\ rets = <<>>

StateIdle ==
    /\ st = make_state(0, nothing, a_continue) /\ sop = "none"
    /\ sarg = nothing /\ sres = make_state(0, nothing, a_continue)

Recursions == {"y_combinator", "explicit_self"}

NoRun == [init |-> nothing, visits |-> <<>>, out |-> <<>>,
          result |-> NoResult, thrown |-> NoFailure,
          recursion |-> "y_combinator"]

NoRuntime == [ran |-> FALSE, acc |-> 0, out |-> <<>>, ok |-> FALSE]

LoopIdle ==
    /\ recursion = "y_combinator"
    /\ fbody = "keep" /\ init = nothing /\ xs = <<>> /\ lpc = "off"
    /\ frames = <<>> /\ visits = <<>> /\ out = <<>> /\ result = NoResult
    /\ thrown = NoFailure /\ runs = 0 /\ prev = NoRun /\ rt = NoRuntime

FactIdle ==
    /\ fn = 0 /\ fpc = "off" /\ fstack = <<>> /\ fcalls = <<>>
    /\ frets = <<>> /\ fres = NoResult

ArgsIdle ==
    /\ fa_xs = <<>> /\ fa_pc = "off" /\ fa_order = <<>> /\ fa_done = <<>>
    /\ fa_calls = <<>> /\ fa_ret = NoResult

\* the argument lists of a terminal call: n distinct arguments, named by
\* their position
ArgLists == {[i \in 1..n |-> i] : n \in 0..MaxArgs}

chain == hist[Len(hist)]

\* the object the member op of the current chain object returns
ReturnedObject(op) ==
    IF ReturnsReference(chain, op) THEN objs[Len(objs)] ELSE Len(ops) + 1

InitChain ==
    /\ prog = "static_if"
    /\ ChainIdle
    /\ StateIdle
    /\ LoopIdle
    /\ FactIdle
    /\ ArgsIdle

\* static_if(bool_v<p>)
StaticIf(p) ==
    /\ prog = "static_if"
    /\ ops = <<>>
    /\ ops' = <<[op |-> "static_if", pred |-> p]>>
    /\ hist' = <<static_if(p)>>
    /\ objs' = <<1>>
    /\ evaluated' = {1}
    /\ UNCHANGED <<prog, calls, invoked, rets, statevars, loopvars,
                   factvars, argsvars>>

CanExtend ==
    /\ prog = "static_if"
    /\ ops # <<>>
    /\ Len(ops) < MaxOps
    /\ calls = <<>>

\* a then that runs the handler as soon as it holds on a true predicate
Then_invokes_eagerly ==
    /\ CanExtend
    /\ ops' = Append(ops, [op |-> "then", pred |-> FALSE])
    /\ hist' = Append(hist, then(chain, Len(ops) + 1))
    /\ objs' = Append(objs, ReturnedObject("then"))
    /\ invoked' = IF IsImplTrue(chain)
                  THEN Append(invoked, [h |-> Len(ops) + 1, args |-> <<>>,
                                        call |-> 0])
                  ELSE invoked
    /\ UNCHANGED <<prog, evaluated, calls, rets, statevars, loopvars,
                   factvars, argsvars>>

\* chain.then(h): the handler is named by the position that supplies it
Then ==
    /\ CanExtend
    /\ ops' = Append(ops, [op |-> "then", pred |-> FALSE])
    /\ hist' = Append(hist, then(chain, Len(ops) + 1))
    /\ objs' = Append(objs, ReturnedObject("then"))
    /\ UNCHANGED <<prog, evaluated, calls, invoked, rets, statevars, loopvars,
                   factvars, argsvars>>

\* chain.else_if(bool_v<p>)
ElseIf(p) ==
    /\ CanExtend
    /\ ops' = Append(ops, [op |-> "else_if", pred |-> p])
    /\ hist' = Append(hist, else_if(chain, p))
    /\ objs' = Append(objs, ReturnedObject("else_if"))
    /\ evaluated' = IF else_if_evaluates(chain)
                    THEN evaluated \cup {Len(ops) + 1}
                    ELSE evaluated
    /\ UNCHANGED <<prog, calls, invoked, rets, statevars, loopvars,
                   factvars, argsvars>>

\* chain.else_(h)
Else ==
    /\ CanExtend
    /\ ops' = Append(ops, [op |-> "else_", pred |-> FALSE])
    /\ hist' = Append(hist, else_(chain, Len(ops) + 1))
    /\ objs' = Append(objs, ReturnedObject("else_"))
    /\ UNCHANGED <<prog, evaluated, calls, invoked, rets, statevars, loopvars,
                   factvars, argsvars>>

\* chain(args...): the terminal call
Call(args) ==
    /\ prog = "static_if"
    /\ ops # <<>>
    /\ Len(calls) < MaxCalls
    /\ HasCallOperator(chain)
    /\ calls' = Append(calls, args)
    /\ invoked' = invoked \o
           [i \in 1..Len(CallInvokes(chain)) |->
               [h |-> CallInvokes(chain)[i], args |-> args,
                call |-> Len(calls) + 1]]
    /\ rets' = Append(rets, CallReturns(chain, args))
    /\ UNCHANGED <<prog, ops, hist, objs, evaluated, statevars, loopvars,
                   factvars, argsvars>>

(***************************************************************************)
(* The state record program: one of continue_(a), continue_(), break_(a),  *)
(* break_() is invoked on a state s.                                       *)
(***************************************************************************)
AccVals == {sz_v(0), sz_v(5), int(0), int(5), nothing}

StateInputs ==
    {make_state(i, a, act) :
        i \in 0..MaxItr, a \in AccVals, act \in {a_continue, a_break}}

InitState ==
    /\ prog = "state"
    /\ st \in StateInputs
    /\ sop = "none"
    /\ sarg = nothing
    /\ sres = st
    /\ ChainIdle
    /\ LoopIdle
    /\ FactIdle
    /\ ArgsIdle

\* s.continue_(a)
Continue(a) ==
    /\ prog = "state"
    /\ sop' = "continue_"
    /\ sarg' = a
    /\ sres' = continue_(st, a)
    /\ UNCHANGED <<prog, st, chainvars, loopvars, factvars, argsvars>>

\* s.continue_()
Continue0 ==
    /\ prog = "state"
    /\ sop' = "continue_0"
    /\ sarg' = accumulator(st)
    /\ sres' = continue_0(st)
    /\ UNCHANGED <<prog, st, chainvars, loopvars, factvars, argsvars>>

\* s.break_(a)
Break(a) ==
    /\ prog = "state"
    /\ sop' = "break_"
    /\ sarg' = a
    /\ sres' = break_(st, a)
    /\ UNCHANGED <<prog, st, chainvars, loopvars, factvars, argsvars>>

\* s.break_()
Break0 ==
    /\ prog = "state"
    /\ sop' = "break_0"
    /\ sarg' = accumulator(st)
    /\ sres' = break_0(st)
    /\ UNCHANGED <<prog, st, chainvars, loopvars, factvars, argsvars>>

(***************************************************************************)
(* The loop program: static_for(body)(init)(xs...).                        *)
(***************************************************************************)
Elems == {Sentinel, 4, 5, 15}

BoundedSeqs == UNION {[1..n -> Elems] : n \in 0..MaxLen}

\* the calls of p09.cpp and p10.cpp
DocumentedSeqs == {<<5, 4, 15, 35>>, <<10, 20, 30, 40>>}

InputSeqs == BoundedSeqs \cup DocumentedSeqs

\* sequences with a negative element that is not the sentinel; the sum
\* sz_v<ce_state.accumulator() + ce_x> is a std::size_t only when the
\* accumulator is one, and a negative int is no std::size_t template argument
NegativeSeqs == {<<-3>>, <<-3, 5>>, <<4, -5, 15>>}

AccInits == {sz_v(0), sz_v(7), int(0), int(7), nothing}

HasSentinel(s) == \E i \in 1..Len(s) : s[i] = Sentinel

InitLoop ==
    /\ prog = "static_for"
    /\ fbody \in Bodies
    /\ recursion \in Recursions
    /\ init \in AccInits
    /\ xs \in InputSeqs \cup (IF fbody = "peaa" /\ init.ty = "sz"
                             THEN NegativeSeqs ELSE {})
    /\ Compiles(fbody, init)
    \* the body of p10.cpp adds every element to a std::size_t
    /\ fbody = "p10" => ~HasSentinel(xs)
    /\ lpc = "idle"
    /\ frames = <<>>
    /\ visits = <<>>
    /\ out = <<>>
    /\ result = NoResult
    /\ thrown = NoFailure
    /\ runs = 0
    /\ prev = NoRun
    /\ rt = NoRuntime
    /\ ChainIdle
    /\ StateIdle
    /\ FactIdle
    /\ ArgsIdle

\* an entry lambda that returns what a state made of the accumulator holds
EmptyResult_from_type(acc) == ValueInit(decltype(acc))

\* [accumulator](auto&&) { return accumulator; }: the result for no input
EmptyResult(acc) == acc

\* [next_state](auto&&) { return next_state.accumulator(); }
FinalResult(next_state) == accumulator(next_state)

\* an explicit call that hands step a fresh state record over the accumulator
plain_call_fresh_state(f, args) ==
    [fn |-> f, self |-> args[1],
     args |-> <<make_state(0, accumulator(args[2]), a_continue)>>
                  \o Tail(Tail(args))]

\* the call f(args...) of the lambda step: its first argument is the
\* parameter self
plain_call(f, args) == [fn |-> f, self |-> args[1], args |-> Tail(args)]

\* the first call of step from the entry lambda:
\* y_combinator(xstep)(initial_state, ys...) or
\* xstep(xstep, initial_state, ys...)
FirstCall(r, xstep, ys) ==
    IF r = "y_combinator"
    THEN y_combinator_call(y_combinator(xstep), ys)
    ELSE plain_call(xstep, <<xstep>> \o ys)

\* the recursive call in step: xself(next_state, xs...) or
\* xself(xself, next_state, xs...)
RecursiveCall(r, xself, ys) ==
    IF r = "y_combinator"
    THEN y_combinator_call(xself, ys)
    ELSE plain_call(xself, <<xself>> \o ys)

\* a step call that starts from a fresh state record over the accumulator
StepFrame_fresh_state(call) ==
    [self |-> call.self,
     state |-> make_state(0, accumulator(call.args[1]), a_continue),
     x |-> call.args[2],
     xs |-> SubSeq(call.args, 3, Len(call.args))]

\* a step call that passes the current element on with the rest
StepFrame_revisits(call) ==
    [self |-> call.self,
     state |-> call.args[1],
     x |-> call.args[2],
     xs |-> SubSeq(call.args, 2, Len(call.args))]

\* the step call a call record of y_combinator_result::operator() starts:
\* step(self, state, x, xs...)
StepFrame(call) ==
    [self |-> call.self,
     state |-> call.args[1],
     x |-> call.args[2],
     xs |-> SubSeq(call.args, 3, Len(call.args))]

\* the innermost lambda of static_for, called with the input sequence
LoopCall ==
    /\ prog = "static_for"
    /\ lpc = "idle"
    /\ LET c == else_(then(static_if(Len(xs) = 0), "return_accumulator"),
                      "start")
       IN /\ IsResult(c)
          /\ \/ /\ c.f = "return_accumulator"
                /\ result' = EmptyResult(init)
                /\ lpc' = "done"
                /\ frames' = <<>>
             \/ /\ c.f = "start"
                /\ xs # <<>>
                /\ LET initial_state == make_state(0, init, a_continue)
                   IN frames' = <<StepFrame(FirstCall(
                          recursion, "step", <<initial_state>> \o xs))>>
                /\ lpc' = "step"
                /\ result' = result
    /\ UNCHANGED <<prog, fbody, recursion, init, xs, visits, out, thrown,
                   runs, prev, rt, chainvars, statevars, factvars, argsvars>>

\* a step that catches what body throws and returns the accumulator so far
step_catches_all == TRUE

\* step has no try block and is not noexcept, and neither are the lambdas
\* and y_combinator_result::operator() between two step calls
step_catches == FALSE

\* one call of step: body, then the static_if on must_break || last_iteration
Step ==
    /\ prog = "static_for"
    /\ lpc = "step"
    /\ LET F == frames[Len(frames)]
           r == Body(fbody, F.state, F.x)
           next_state == r.next
           last_iteration == Len(F.xs) = 0
           must_break == next_action(next_state) = a_break
           c == else_(then(static_if(must_break \/ last_iteration), "final"),
                      "recurse")
       IN /\ visits' = Append(visits, [state |-> F.state, x |-> F.x])
          /\ IF BodyThrows(fbody, F.state, F.x)
             THEN /\ thrown' = Failure(F.state, F.x)
                  /\ lpc' = "unwind"
                  /\ UNCHANGED <<out, result, frames>>
             ELSE /\ out' = out \o r.out
                  /\ thrown' = thrown
                  /\ IsResult(c)
                  /\ \/ /\ c.f = "final"
                        /\ result' = FinalResult(next_state)
                        /\ lpc' = "return"
                        /\ frames' = frames
                     \/ /\ c.f = "recurse"
                        /\ F.xs # <<>>
                        /\ frames' = Append(frames,
                               StepFrame(RecursiveCall(recursion,
                                   F.self, <<next_state>> \o F.xs)))
                        /\ lpc' = "step"
                        /\ result' = result
    /\ UNCHANGED <<prog, fbody, recursion, init, xs, runs, prev, rt,
                   chainvars, statevars, factvars, argsvars>>

\* the exception leaves the innermost active step call
Unwind ==
    /\ prog = "static_for"
    /\ lpc = "unwind"
    /\ frames # <<>>
    /\ IF step_catches
       THEN /\ result' = accumulator(frames[Len(frames)].state)
            /\ thrown' = NoFailure
            /\ lpc' = "return"
            /\ frames' = frames
       ELSE /\ frames' = SubSeq(frames, 1, Len(frames) - 1)
            /\ lpc' = IF Len(frames) = 1 THEN "failed" ELSE "unwind"
            /\ UNCHANGED <<result, thrown>>
    /\ UNCHANGED <<prog, fbody, recursion, init, xs, visits, out, runs, prev,
                   rt, chainvars, statevars, factvars, argsvars>>

\* the innermost active step call returns the result to its caller
Return ==
    /\ prog = "static_for"
    /\ lpc = "return"
    /\ frames # <<>>
    /\ frames' = SubSeq(frames, 1, Len(frames) - 1)
    /\ lpc' = IF Len(frames) = 1 THEN "done" ELSE "return"
    /\ UNCHANGED <<prog, fbody, recursion, init, xs, visits, out, result,
                   thrown, runs, prev, rt, chainvars, statevars,
                   factvars, argsvars>>

\* a closure whose call operator writes its result to the captured
\* accumulator, as the mutable lambda of the run-time loop does
ClosureAfterCall_mutable(acc, res) == res

\* the accumulator captured by [step, accumulator](auto&&... xs) after a
\* call: the lambda is not mutable and captures by value
ClosureAfterCall(acc, res) == acc

\* static_for(body)(init) is called again with the same elements
Reinvoke ==
    /\ prog = "static_for"
    /\ lpc \in {"done", "failed"}
    /\ runs + 1 < MaxRuns
    /\ runs' = runs + 1
    /\ prev' = [init |-> init, visits |-> visits, out |-> out,
                result |-> result, thrown |-> thrown,
                recursion |-> recursion]
    /\ init' = IF lpc = "done" THEN ClosureAfterCall(init, result) ELSE init
    /\ lpc' = "idle"
    /\ visits' = <<>>
    /\ out' = <<>>
    /\ result' = NoResult
    /\ thrown' = NoFailure
    /\ UNCHANGED <<prog, fbody, recursion, xs, frames, rt, chainvars,
                   statevars, factvars, argsvars>>

\* the same body, accumulator and elements are given to the other static_for
\* of p10.cpp
OtherStaticFor ==
    /\ prog = "static_for"
    /\ lpc \in {"done", "failed"}
    /\ runs + 1 < MaxRuns
    /\ runs' = runs + 1
    /\ prev' = [init |-> init, visits |-> visits, out |-> out,
                result |-> result, thrown |-> thrown,
                recursion |-> recursion]
    /\ recursion' = CHOOSE r \in Recursions : r # recursion
    /\ lpc' = "idle"
    /\ visits' = <<>>
    /\ out' = <<>>
    /\ result' = NoResult
    /\ thrown' = NoFailure
    /\ UNCHANGED <<prog, fbody, init, xs, frames, rt, chainvars, statevars,
                   factvars, argsvars>>

\* example0 of p09.cpp: after the static_for, the run-time loop runs on the
\* same numbers and the two results are compared
RunTimeLoop ==
    /\ prog = "static_for"
    /\ lpc = "done"
    /\ fbody = "peaa"
    /\ ~rt.ran
    /\ LET r == print_even_and_accumulate_runtime(init.val, xs)
       IN rt' = [ran |-> TRUE, acc |-> r.acc, out |-> r.out,
                 ok |-> result.val = r.acc]
    /\ UNCHANGED <<prog, fbody, recursion, init, xs, lpc, frames, visits, out,
                   result, thrown, runs, prev, chainvars, statevars,
                   factvars, argsvars>>

(***************************************************************************)
(* The factorial program of example0 of p10.cpp:                           *)
(*   factorial_impl = [](auto self, auto x) -> int                         *)
(*       { if(x == 0) return 1; return self(x * self(x - 1)); }            *)
(*   factorial = y_combinator(factorial_impl); factorial(n)                *)
(***************************************************************************)
Args == 0..MaxN

\* how a recursion the stack cannot hold ends: the stack runs out, or the
\* calls are compiled to jumps and the program never returns
Exhausted == {"stack_overflow", "never_returns"}

\* the call factorial_impl(self, x) a call record of operator() starts
ImplFrame(call) ==
    [fn |-> call.fn, self |-> call.self, x |-> call.args[1],
     pc |-> "test", r |-> 0]

InitFactorial ==
    /\ prog = "factorial"
    /\ fn \in Args
    /\ fpc = "idle"
    /\ fstack = <<>>
    /\ fcalls = <<>>
    /\ frets = <<>>
    /\ fres = NoResult
    /\ ChainIdle
    /\ StateIdle
    /\ LoopIdle
    /\ ArgsIdle

Top == fstack[Len(fstack)]

SetTop(pc, r) == [fstack EXCEPT ![Len(fstack)] = [@ EXCEPT !.pc = pc, !.r = r]]

\* factorial(n): the call of the y_combinator_result from example0
FactorialCall ==
    /\ prog = "factorial"
    /\ fpc = "idle"
    /\ LET call == y_combinator_call(y_combinator("factorial_impl"), <<fn>>)
       IN /\ fstack' = <<ImplFrame(call)>>
          /\ fcalls' = <<[call |-> call, through |-> "factorial"]>>
    /\ fpc' = "run"
    /\ UNCHANGED <<prog, fn, frets, fres, chainvars, statevars,
                   loopvars, argsvars>>

\* the call self(arg) made by the innermost factorial_impl, which goes on at
\* pc once the call returns
SelfCall(arg, pc) ==
    LET call == y_combinator_call(Top.self, <<arg>>)
    IN IF Len(fstack) < MaxDepth
       THEN /\ fstack' = Append(SetTop(pc, Top.r), ImplFrame(call))
            /\ fcalls' = Append(fcalls, [call |-> call, through |-> "self"])
            /\ fpc' = fpc
       ELSE /\ fpc' \in Exhausted
            /\ UNCHANGED <<fstack, fcalls>>

\* if(x == 0) return 1;
ImplBase ==
    /\ prog = "factorial"
    /\ fpc = "run"
    /\ Top.pc = "test"
    /\ Top.x = 0
    /\ fstack' = SetTop("return", 1)
    /\ UNCHANGED <<prog, fn, fpc, fcalls, frets, fres,
                   chainvars, statevars, loopvars, argsvars>>

\* the inner call of self(x * self(x - 1))
ImplInner ==
    /\ prog = "factorial"
    /\ fpc = "run"
    /\ Top.pc = "test"
    /\ Top.x # 0
    /\ SelfCall(Top.x - 1, "inner")
    /\ UNCHANGED <<prog, fn, frets, fres, chainvars, statevars,
                   loopvars, argsvars>>

\* the outer call of self(x * self(x - 1)), r being what the inner returned
ImplOuter ==
    /\ prog = "factorial"
    /\ fpc = "run"
    /\ Top.pc = "multiply"
    /\ SelfCall(Top.x * Top.r, "outer")
    /\ UNCHANGED <<prog, fn, frets, fres, chainvars, statevars,
                   loopvars, argsvars>>

\* the innermost factorial_impl returns r through operator() to its caller
ImplReturn ==
    /\ prog = "factorial"
    /\ fpc = "run"
    /\ Top.pc = "return"
    /\ frets' = Append(frets, [x |-> Top.x, value |-> Top.r,
                               depth |-> Len(fstack)])
    /\ IF Len(fstack) = 1
       THEN /\ fres' = int(Top.r)
            /\ fpc' = "done"
            /\ fstack' = <<>>
       ELSE LET rest == SubSeq(fstack, 1, Len(fstack) - 1)
                caller == rest[Len(rest)]
            IN /\ fstack' = [rest EXCEPT ![Len(rest)] =
                      [@ EXCEPT !.pc = IF caller.pc = "inner"
                                       THEN "multiply" ELSE "return",
                                !.r = Top.r]]
               /\ UNCHANGED <<fres, fpc>>
    /\ UNCHANGED <<prog, fn, fcalls, chainvars, statevars, loopvars, argsvars>>

(***************************************************************************)
(* The for_args program:                                                   *)
(*   for_args(f, xs...)                                                    *)
(*     { return (void)std::initializer_list<int>{(f(FWD(xs)), 0)...}; }    *)
(***************************************************************************)
Printed == {"hello", "1", "2", "3"}

\* the call of main of p05.cpp
DocumentedArgs == <<"hello", "1", "2", "3">>

PackInputs ==
    UNION {[1..n -> Printed] : n \in 0..MaxPack} \cup {DocumentedArgs}

\* an evaluation of the clauses from the last to the first, as the arguments
\* of a function call may be evaluated
InitializerOrder_reversed(n) == [i \in 1..n |-> n + 1 - i]

\* the clauses of a braced initializer list are evaluated in the order in
\* which they appear
InitializerOrder(n) == [i \in 1..n |-> i]

\* the void a cast to void leaves
Void == [ty |-> "void", val |-> 0]

InitForArgs ==
    /\ prog = "for_args"
    /\ fa_xs \in PackInputs
    /\ fa_pc = "idle"
    /\ fa_order = <<>>
    /\ fa_done = <<>>
    /\ fa_calls = <<>>
    /\ fa_ret = NoResult
    /\ ChainIdle
    /\ StateIdle
    /\ LoopIdle
    /\ FactIdle

\* for_args(f, xs...) is called: the pack expands to one clause per argument
ForArgsCall ==
    /\ prog = "for_args"
    /\ fa_pc = "idle"
    /\ fa_order' = InitializerOrder(Len(fa_xs))
    /\ fa_pc' = "run"
    /\ UNCHANGED <<prog, fa_xs, fa_done, fa_calls, fa_ret,
                   chainvars, statevars, loopvars, factvars>>

\* the next clause (f(FWD(x)), 0) is evaluated: f is called, the comma
\* operator yields 0
ForArgsClause ==
    /\ prog = "for_args"
    /\ fa_pc = "run"
    /\ Len(fa_done) < Len(fa_order)
    /\ LET i == fa_order[Len(fa_done) + 1]
       IN /\ fa_calls' = Append(fa_calls, fa_xs[i])
          /\ fa_done' = Append(fa_done, 0)
    /\ UNCHANGED <<prog, fa_xs, fa_pc, fa_order, fa_ret,
                   chainvars, statevars, loopvars, factvars>>

\* the list is complete, is cast to void and for_args returns
ForArgsReturn ==
    /\ prog = "for_args"
    /\ fa_pc = "run"
    /\ Len(fa_done) = Len(fa_order)
    /\ fa_ret' = Void
    /\ fa_pc' = "done"
    /\ UNCHANGED <<prog, fa_xs, fa_order, fa_done, fa_calls,
                   chainvars, statevars, loopvars, factvars>>

Init == InitChain \/ InitState \/ InitLoop \/ InitFactorial \/ InitForArgs

Next ==
    \/ \E p \in BOOLEAN : StaticIf(p)
    \/ Then
    \/ \E p \in BOOLEAN : ElseIf(p)
    \/ Else
    \/ \E args \in ArgLists : Call(args)
    \/ \E a \in AccVals : Continue(a)
    \/ Continue0
    \/ \E a \in AccVals : Break(a)
    \/ Break0
    \/ LoopCall
    \/ Step
    \/ Return
    \/ Unwind
    \/ Reinvoke
    \/ OtherStaticFor
    \/ RunTimeLoop
    \/ FactorialCall
    \/ ImplBase
    \/ ImplInner
    \/ ImplOuter
    \/ ImplReturn
    \/ ForArgsCall
    \/ ForArgsClause
    \/ ForArgsReturn

Spec == Init /\ [][Next]_vars

(***************************************************************************)
(* Claims about static_if chains.                                          *)
(***************************************************************************)
IsPredicateOp(o) == o.op \in {"static_if", "else_if"}

\* static_if(p1).then(h1).else_if(p2).then(h2)...else_if(pk).then(hk),
\* optionally followed by else_(d)
Canonical(o) ==
    /\ Len(o) >= 2
    /\ o[1].op = "static_if"
    /\ \A i \in 2..Len(o) :
          IF i % 2 = 0 THEN o[i].op = "then"
          ELSE \/ o[i].op = "else_if"
               \/ i = Len(o) /\ o[i].op = "else_"

TruePredicates(o) == {i \in 1..Len(o) : IsPredicateOp(o[i]) /\ o[i].pred}

MinOf(S) == CHOOSE m \in S : \A n \in S : m <= n

\* the handler first-match-wins selects in a canonical chain
FirstMatch(o) ==
    IF TruePredicates(o) # {} THEN MinOf(TruePredicates(o)) + 1
    ELSE IF o[Len(o)].op = "else_" THEN Len(o)
    ELSE NoHandler

\* the handlers terminal call n ran
InvokedBy(n) == {k \in 1..Len(invoked) : invoked[k].call = n}

\* C1: in a chain static_if(p1).then(h1).else_if(p2).then(h2)...[else_(d)]
\* every terminal call invokes the handler of the first true predicate, or d
\* when no predicate is true and else_ was supplied, and no other handler.
C1_FirstMatchWins ==
    (prog = "static_if" /\ Canonical(ops) /\ FirstMatch(ops) # NoHandler) =>
        /\ Len(invoked) = Len(calls)
        /\ \A k \in 1..Len(invoked) :
              invoked[k].h = FirstMatch(ops) /\ invoked[k].call = k

\* consume(x) of a liquid: static_if(false).then(eat).else_if(true)
\* .then(drink).else_(reject)(x) has run drink, the handler of position 4
C1_Witness ==
    /\ prog = "static_if"
    /\ Canonical(ops)
    /\ Len(ops) = 5
    /\ ~ops[1].pred /\ ops[3].pred /\ ops[5].op = "else_"
    /\ Len(calls) = 1
    /\ invoked = <<[h |-> 4, args |-> calls[1], call |-> 1]>>

\* C2 as stated: every terminal call realizes exactly one handler.
C2_ExactlyOneHandler ==
    prog = "static_if" =>
        \A n \in 1..Len(calls) : Cardinality(InvokedBy(n)) = 1

\* C2 amended: every terminal call realizes at most one handler: exactly one
\* when the chain is resolved, none when it is open (pending predicate false).
C2_AtMostOneHandler ==
    prog = "static_if" =>
        \A n \in 1..Len(calls) :
            /\ Cardinality(InvokedBy(n)) <= 1
            /\ Cardinality(InvokedBy(n)) = 1 <=> IsResult(chain)

C2_Witness ==
    /\ prog = "static_if"
    /\ Len(calls) = 2
    /\ IsResult(chain)
    /\ Len(ops) > 3
    /\ Len(invoked) = 2

\* the chain value operation i was invoked on
Before(i) == hist[i - 1]

Ran(h) == \E k \in 1..Len(invoked) : invoked[k].h = h

\* C3: a handler given to then on a false pending predicate, a handler given
\* to then or else_ on a resolved chain, is never invoked; a predicate given
\* to else_if on a resolved chain is never evaluated.
C3_RejectedNeverInvoked ==
    prog = "static_if" =>
        \A i \in 2..Len(ops) :
            /\ (ops[i].op = "then" /\ IsImplFalse(Before(i))) => ~Ran(i)
            /\ (ops[i].op \in {"then", "else_"} /\ IsResult(Before(i)))
                   => ~Ran(i)
            /\ (ops[i].op = "else_if" /\ IsResult(Before(i)))
                   => i \notin evaluated

C3_Witness ==
    /\ prog = "static_if"
    /\ \E i \in 2..Len(ops) : ops[i].op = "then" /\ IsImplFalse(Before(i))
    /\ \E i \in 2..Len(ops) : ops[i].op = "then" /\ IsResult(Before(i))
    /\ \E i \in 2..Len(ops) : ops[i].op = "else_" /\ IsResult(Before(i))
    /\ \E i \in 2..Len(ops) : ops[i].op = "else_if" /\ IsResult(Before(i))
    /\ Len(calls) > 0
    /\ Len(invoked) > 0

\* positions at which the chain is resolved
Resolved == {i \in 1..Len(hist) : IsResult(hist[i])}

\* C4: once the chain is resolved with h, every later then, else_if, else_
\* yields a chain value and leaves h selected, and every terminal call
\* invokes h with exactly the supplied arguments and returns h's result.
C4_ResolvedIsPassThrough ==
    (prog = "static_if" /\ Resolved # {}) =>
        LET r == MinOf(Resolved)
            h == hist[r].f
        IN /\ ops[r].op \in {"then", "else_"}
           /\ h = r
           /\ \A j \in r..Len(hist) : hist[j] = make_static_if_result(h)
           /\ Len(invoked) = Len(calls)
           /\ Len(rets) = Len(calls)
           /\ \A n \in 1..Len(calls) :
                 /\ invoked[n] = [h |-> h, args |-> calls[n], call |-> n]
                 /\ rets[n] = HandlerResult(h, calls[n])

C4_Witness ==
    /\ prog = "static_if"
    /\ Resolved # {}
    /\ MinOf(Resolved) + 3 <= Len(ops)
    /\ {ops[j].op : j \in (MinOf(Resolved) + 1)..Len(ops)}
           = {"then", "else_if", "else_"}
    /\ Len(calls) = 2
    /\ calls[1] # <<>>
    /\ rets[1] = HandlerResult(MinOf(Resolved), calls[1])

\* no predicate of the chain is true and no else_ was supplied
Unmatched(o) ==
    /\ o # <<>>
    /\ TruePredicates(o) = {}
    /\ \A i \in 1..Len(o) : o[i].op # "else_"

\* C5: when no predicate is true and no else_ was supplied, the terminal
\* call exists for every argument list, runs no handler, changes nothing
\* and returns the empty result.
C5_UnmatchedIsNoOp ==
    (prog = "static_if" /\ Unmatched(ops)) =>
        /\ HasCallOperator(chain)
        /\ IsImplFalse(chain)
        /\ invoked = <<>>
        /\ \A n \in 1..Len(rets) : rets[n] = Unit

C5_Witness ==
    /\ prog = "static_if"
    /\ Unmatched(ops)
    /\ Len(ops) >= 4
    /\ Len(calls) = 2
    /\ calls[1] = <<>>
    /\ calls[2] # <<>>
    /\ rets = <<Unit, Unit>>

(***************************************************************************)
(* Claims about static_for and the state record.                           *)
(***************************************************************************)
\* The state record as a value: it holds the accumulator it was given.
RefState(itr, acc, action) ==
    [iteration |-> itr, accumulator |-> acc, action |-> action]

\* the bodies of the repository run on value-holding state records
RefBody(b, s, x) ==
    CASE b = "peaa" ->
           IF x = Sentinel
           THEN RefState(s.iteration + 1, s.accumulator, a_break)
           ELSE RefState(s.iteration + 1, sz_v(s.accumulator.val + x),
                         a_continue)
      [] b = "p10" ->
           RefState(s.iteration + 1, sz_v(s.accumulator.val + x), a_continue)
      [] b \in {"keep", "throwing"} ->
           RefState(s.iteration + 1, s.accumulator, a_continue)

\* left fold of body over seq from s, stopped at the first break state
RECURSIVE LeftFold(_, _, _)
LeftFold(b, s, seq) ==
    IF seq = <<>> THEN s
    ELSE LET n == RefBody(b, s, Head(seq))
         IN IF n.action = a_break THEN n ELSE LeftFold(b, n, Tail(seq))

LoopDone == prog = "static_for" /\ lpc = "done"

\* the accumulator's type fixes its value: T{} is the accumulator itself
TypeEncoded(v) == ValueInit(decltype(v)) = v

\* C6 as stated: for every initial accumulator the result of a loop over a
\* non-empty sequence is the accumulator of the left fold of body from
\* {iteration 0, init, continue}.
C6_LeftFoldAnyInit ==
    (LoopDone /\ xs # <<>>) =>
        result = LeftFold(fbody, RefState(0, init, a_continue), xs).accumulator

\* C6 amended: the same for every initial accumulator whose type fixes its
\* value (an integral constant, an empty struct, a value-initialized object);
\* sum body: 59 on (5, 4, 15, 35) and 100 on (10, 20, 30, 40) from sz_v<0>.
C6_LeftFoldTypeEncodedInit ==
    /\ (LoopDone /\ xs # <<>> /\ TypeEncoded(init)) =>
          result =
            LeftFold(fbody, RefState(0, init, a_continue), xs).accumulator
    /\ (LoopDone /\ fbody = "peaa" /\ init = sz_v(0)
          /\ xs = <<5, 4, 15, 35>>) => result = sz_v(59)
    /\ (LoopDone /\ fbody = "p10" /\ init = sz_v(0)
          /\ xs = <<10, 20, 30, 40>>) => result = sz_v(100)

C6_Witness ==
    /\ LoopDone
    /\ fbody = "peaa"
    /\ init = sz_v(0)
    /\ xs = <<5, 4, 15, 35>>
    /\ Len(visits) = 4
    /\ result = sz_v(59)

\* the state body returned for visit k
Returned(k) == Body(fbody, visits[k].state, visits[k].x).next

BreaksAt(k) == next_action(Returned(k)) = a_break

\* C7: a visit whose returned state has action break is the last visit, and
\* the loop then returns the accumulator of that state without another step;
\* the sentinel body on (5, -999, 15) makes 2 visits, never sees 15 and
\* returns 5.
C7_BreakStopsLoop ==
    prog = "static_for" =>
        /\ \A k \in 1..Len(visits) : BreaksAt(k) => k = Len(visits)
        /\ (visits # <<>> /\ BreaksAt(Len(visits))) =>
              /\ lpc \in {"return", "done"}
              /\ result = accumulator(Returned(Len(visits)))
        /\ (LoopDone /\ fbody = "peaa" /\ init = sz_v(0)
              /\ xs = <<5, Sentinel, 15>>) =>
              /\ result = sz_v(5)
              /\ Len(visits) = 2
              /\ \A k \in 1..Len(visits) : visits[k].x # 15

C7_Witness ==
    /\ LoopDone
    /\ fbody = "peaa"
    /\ init = sz_v(0)
    /\ xs = <<5, Sentinel, 15>>
    /\ Len(visits) = 2
    /\ visits[2].x = Sentinel
    /\ result = sz_v(5)

\* C8: with an empty input sequence the loop returns init itself and body
\* is never invoked.
C8_EmptyIsIdentity ==
    (prog = "static_for" /\ xs = <<>>) =>
        /\ visits = <<>>
        /\ frames = <<>>
        /\ lpc \in {"idle", "done"}
        /\ lpc = "done" => result = init

C8_Witness ==
    /\ LoopDone
    /\ xs = <<>>
    /\ init = int(7)
    /\ result = int(7)
    /\ visits = <<>>

\* positions of xs at which the body, run in sequence, returns action break
Sentinels == {k \in 1..Len(xs) : xs[k] = Sentinel}

\* C9: the k-th body invocation is on the k-th input element, so no element
\* is visited twice or skipped; when the loop is over the number of
\* invocations is n without a break and the position of the first
\* break-producing element otherwise (only the sentinel body breaks).
C9_OneVisitPerElement ==
    prog = "static_for" =>
        /\ Len(visits) <= Len(xs)
        /\ \A k \in 1..Len(visits) : visits[k].x = xs[k]
        /\ lpc \in {"return", "done"} =>
              Len(visits) =
                 IF fbody = "peaa" /\ Sentinels # {}
                 THEN MinOf(Sentinels)
                 ELSE Len(xs)

C9_Witness ==
    /\ LoopDone
    /\ fbody = "peaa"
    /\ Len(xs) = 3
    /\ Sentinels = {2, 3}
    /\ Len(visits) = 2
    /\ visits[1].x = xs[1]
    /\ visits[2].x = Sentinel

\* the action an operation of the state record asks for
ActionOf(o) == IF o \in {"break_", "break_0"} THEN a_break ELSE a_continue

\* C10 as stated: for every accumulator a, continue_(a) and break_(a) return
\* a state with iteration() + 1, accumulator() equal to a and the action of
\* the operation; the overloads without argument keep accumulator(); s is
\* unchanged.
C10_AccumulatorIsArgument ==
    [][prog = "state" =>
          /\ st' = st
          /\ iteration(sres') = iteration(st) + 1
          /\ next_action(sres') = ActionOf(sop')
          /\ accumulator(sres') = sarg'
          /\ sop' \in {"continue_0", "break_0"} =>
                accumulator(sres') = accumulator(st)]_vars

\* C10 amended: the same, with accumulator() equal to a for every a whose
\* type fixes its value (integral constant, empty struct); for any other a
\* accumulator() is a value-initialized object of a's type.
C10_AccumulatorIsTypeOfArgument ==
    [][prog = "state" =>
          /\ st' = st
          /\ iteration(sres') = iteration(st) + 1
          /\ next_action(sres') = ActionOf(sop')
          /\ TypeEncoded(sarg') => accumulator(sres') = sarg'
          /\ accumulator(sres') = ValueInit(decltype(sarg'))
          /\ sop' \in {"continue_0", "break_0"} =>
                accumulator(sres') = accumulator(st)]_vars

C10_Witness ==
    /\ prog = "state"
    /\ sop = "break_"
    /\ iteration(st) = 1
    /\ next_action(st) = a_continue
    /\ accumulator(st) = sz_v(0)
    /\ sarg = sz_v(5)
    /\ sres = make_state(2, sz_v(5), a_break)
    /\ accumulator(sres) = sz_v(5)

\* C11: the state passed to body for the k-th visited element, k counted
\* from 0, has iteration() = k: the index starts at 0, grows by exactly one
\* per step and never decreases; the state body returns has iteration() k + 1.
C11_IterationCountsVisits ==
    prog = "static_for" =>
        /\ \A k \in 1..Len(visits) : iteration(visits[k].state) = k - 1
        /\ \A k \in 1..Len(visits) : iteration(Returned(k)) = k
        /\ \A k \in 1..Len(frames) : iteration(frames[k].state) = k - 1

C11_Witness ==
    /\ LoopDone
    /\ Len(visits) = 3
    /\ iteration(visits[1].state) = 0
    /\ iteration(visits[2].state) = 1
    /\ iteration(visits[3].state) = 2

(***************************************************************************)
(* More claims about static_if chains.                                     *)
(***************************************************************************)
IsOpen(c) == c.kind = "static_if_impl"

\* C12: then(h) on an open chain resolves it with h when the pending
\* predicate is true; when it is false h is dropped, never run, and the chain
\* stays open: a following else_if opens its predicate, a following else_
\* resolves the chain.
C12_ThenAttaches ==
    prog = "static_if" =>
        \A i \in 2..Len(ops) :
            (ops[i].op = "then" /\ IsOpen(Before(i))) =>
                /\ IsImplTrue(Before(i)) =>
                       hist[i] = make_static_if_result(i)
                /\ IsImplFalse(Before(i)) =>
                       /\ hist[i] = static_if_impl(FALSE)
                       /\ ~Ran(i)
                       /\ (i < Len(ops) /\ ops[i + 1].op = "else_if") =>
                              hist[i + 1] = static_if(ops[i + 1].pred)
                       /\ (i < Len(ops) /\ ops[i + 1].op = "else_") =>
                              hist[i + 1] = make_static_if_result(i + 1)

\* static_if(false).then(h2).else_if(true).then(h4)(x) has run h4
C12_Witness ==
    /\ prog = "static_if"
    /\ Len(ops) = 4
    /\ ops[1].op = "static_if" /\ ~ops[1].pred
    /\ ops[2].op = "then" /\ hist[2] = static_if_impl(FALSE)
    /\ ops[3].op = "else_if" /\ ops[3].pred
    /\ ops[4].op = "then" /\ hist[4] = make_static_if_result(4)
    /\ Len(calls) = 1
    /\ Ran(4) /\ ~Ran(2)

ElseIfOps == {i \in 2..Len(ops) : ops[i].op = "else_if"}

\* C13 as stated: else_if(q) on any open chain yields the chain static_if(q)
\* yields; on a resolved chain it returns the same resolved value.
C13_ElseIfOnAnyOpenChain ==
    prog = "static_if" =>
        \A i \in ElseIfOps :
            /\ IsOpen(Before(i)) => hist[i] = static_if(ops[i].pred)
            /\ IsResult(Before(i)) => hist[i] = Before(i)

\* C13 amended: else_if(q) on an open chain whose pending predicate is false
\* yields the chain static_if(q) yields and evaluates q; on an open chain
\* whose pending predicate is true and on a resolved chain it returns the
\* same chain value and q is not evaluated.
C13_ElseIfOnFalseOpenChain ==
    prog = "static_if" =>
        \A i \in ElseIfOps :
            /\ IsImplFalse(Before(i)) =>
                   hist[i] = static_if(ops[i].pred) /\ i \in evaluated
            /\ (IsImplTrue(Before(i)) \/ IsResult(Before(i))) =>
                   hist[i] = Before(i) /\ i \notin evaluated

C13_Witness ==
    /\ prog = "static_if"
    /\ \E i \in ElseIfOps :
          IsImplFalse(Before(i)) /\ ops[i].pred /\ IsImplTrue(hist[i])
    /\ \E i \in ElseIfOps :
          IsImplTrue(Before(i)) /\ ~ops[i].pred /\ IsImplTrue(hist[i])
    /\ \E i \in ElseIfOps : IsResult(Before(i)) /\ IsResult(hist[i])

ElseOps == {i \in 2..Len(ops) : ops[i].op = "else_"}

\* every terminal call made ran handler h and nothing else
OnlyRan(h) ==
    /\ Len(invoked) = Len(calls)
    /\ \A k \in 1..Len(invoked) : invoked[k].h = h

\* C14 as stated: else_(d) on any open chain resolves it with d, so the
\* terminal call invokes d; on a resolved chain it is a no-op.
C14_ElseOnAnyOpenChain ==
    prog = "static_if" =>
        \A i \in ElseOps :
            /\ IsOpen(Before(i)) => hist[i] = make_static_if_result(i)
            /\ IsResult(Before(i)) => hist[i] = Before(i)

\* C14 amended: else_(d) on an open chain whose pending predicate is false
\* resolves it with d, and every terminal call then invokes d; on an open
\* chain whose pending predicate is true and on a resolved chain it returns
\* the same chain value and d is never invoked.
C14_ElseOnFalseOpenChain ==
    prog = "static_if" =>
        \A i \in ElseOps :
            /\ IsImplFalse(Before(i)) =>
                   hist[i] = make_static_if_result(i) /\ OnlyRan(i)
            /\ (IsImplTrue(Before(i)) \/ IsResult(Before(i))) =>
                   hist[i] = Before(i) /\ ~Ran(i)

C14_Witness ==
    /\ prog = "static_if"
    /\ \E i \in ElseOps : IsImplFalse(Before(i)) /\ Ran(i)
    /\ \E i \in ElseOps : IsResult(Before(i)) /\ ~Ran(i)
    /\ Len(calls) = 2
    /\ Len(invoked) = 2

ChainValues ==
    {static_if_impl(TRUE), static_if_impl(FALSE)}
        \cup {static_if_result(h) : h \in 1..MaxOps}

\* C15: every then, else_if and else_ is accepted in every chain state and
\* yields a chain value; an else_if or an else_ that directly follows an
\* else_ changes nothing: its handler is never run, its predicate never
\* evaluated.
C15_MalformedChainsAccepted ==
    prog = "static_if" =>
        /\ \A i \in 1..Len(hist) : hist[i] \in ChainValues
        /\ CanExtend =>
              /\ ENABLED Then
              /\ ENABLED Else
              /\ \A p \in BOOLEAN : ENABLED ElseIf(p)
        /\ \A i \in 3..Len(ops) :
              (ops[i - 1].op = "else_" /\ ops[i].op \in {"else_if", "else_"})
                  => /\ hist[i] = hist[i - 1]
                     /\ ~Ran(i)
                     /\ i \notin evaluated

\* static_if(false).else_(d).else_if(true).else_(e)(x) has run d
C15_Witness ==
    /\ prog = "static_if"
    /\ Len(ops) = 4
    /\ ~ops[1].pred
    /\ ops[2].op = "else_"
    /\ ops[3].op = "else_if" /\ ops[3].pred
    /\ ops[4].op = "else_"
    /\ chain = make_static_if_result(2)
    /\ Len(calls) = 1
    /\ Ran(2) /\ ~Ran(4)

(***************************************************************************)
(* Claims about the loop and its run-time counterpart.                     *)
(***************************************************************************)
\* the number a value stands for, as n + wraps * 2^64
NumberOf(v) == [wraps |-> IF v.ty = "sz" /\ v.val < 0 THEN 1 ELSE 0,
                n |-> v.val]

IntNumber(n) == [wraps |-> 0, n |-> n]

Compared ==
    /\ LoopDone
    /\ fbody = "peaa"
    /\ init.val = 0
    /\ rt.ran

SameAsRuntime ==
    /\ NumberOf(result) = IntNumber(rt.acc)
    /\ out = rt.out
    /\ xs = <<5, 4, 15, 35>> => result = sz_v(59) /\ rt.acc = 59 /\ rt.ok

NonNegative(seq) == \A i \in 1..Len(seq) : seq[i] >= 0 \/ seq[i] = Sentinel

IsPrefix(p, q) == Len(p) <= Len(q) /\ SubSeq(q, 1, Len(p)) = p

LastVisit == visits[Len(visits)]

\* the last call of body in this run threw
Threw ==
    /\ prog = "static_for"
    /\ visits # <<>>
    /\ BodyThrows(fbody, LastVisit.state, LastVisit.x)

FirstFailing ==
    MinOf({k \in 1..Len(xs) : xs[k] = 15} \cup {Len(xs) + 1})

\* C19: when body throws on the k-th visited element the exception reaches
\* the caller of the loop as it was thrown: body was called k times, once for
\* each of the first k elements, and the loop returns no accumulator
C19_BodyFailurePropagates ==
    /\ Threw =>
           /\ lpc \in {"unwind", "failed"}
           /\ result = NoResult
           /\ Len(visits) = FirstFailing
           /\ \A k \in 1..Len(visits) : visits[k].x = xs[k]
           /\ thrown = Failure(LastVisit.state, LastVisit.x)
           /\ lpc = "failed" => frames = <<>>
    /\ (prog = "static_for" /\ ~Threw) =>
           /\ thrown = NoFailure
           /\ lpc \notin {"unwind", "failed"}

C19_Witness ==
    /\ Threw
    /\ lpc = "failed"
    /\ xs = <<5, 15, 4>>
    /\ Len(visits) = 2
    /\ thrown.x = 15
    /\ thrown.iteration = 1

(***************************************************************************)
(* Claims about y_combinator and the factorial example.                    *)
(***************************************************************************)
factorial == y_combinator("factorial_impl")

FromCaller == {i \in 1..Len(fcalls) : fcalls[i].through = "factorial"}

\* C16: a call g(args...) of g = y_combinator(f) calls f once, with a
\* reference to g and args, and returns what that call returns; the calls f
\* makes through self are calls of g again.  Checked on factorial and on the
\* step function of static_for
C16_YCombinatorPassesItself ==
    /\ prog = "factorial" =>
           /\ \A i \in 1..Len(fcalls) :
                  /\ fcalls[i].call.fn = "factorial_impl"
                  /\ fcalls[i].call.self = factorial
           /\ \A k \in 1..Len(fstack) :
                  /\ fstack[k].fn = "factorial_impl"
                  /\ fstack[k].self = factorial
           /\ fpc # "idle" =>
                  /\ FromCaller = {1}
                  /\ fcalls[1].call.args = <<fn>>
           \* every call of g started one call of f, active or returned
           /\ Len(fcalls) = Len(fstack) + Len(frets)
           /\ fpc = "done" =>
                  /\ frets[Len(frets)].depth = 1
                  /\ frets[Len(frets)].x = fn
                  /\ fres = int(frets[Len(frets)].value)
    /\ (prog = "static_for" /\ recursion = "y_combinator") =>
           \A k \in 1..Len(frames) : frames[k].self = y_combinator("step")

C16_Witness ==
    /\ prog = "factorial"
    /\ fn = 1
    /\ Len(fstack) = 2
    /\ Len(fcalls) = 3
    /\ fcalls[3].through = "self"
    /\ fcalls[3].call.args = <<1>>
    /\ fstack[2].self = factorial
    /\ frets = <<[x |-> 0, value |-> 1, depth |-> 2]>>

RECURSIVE Factorial(_)
Factorial(n) == IF n = 0 THEN 1 ELSE n * Factorial(n - 1)

\* C20: factorial(n) terminates for every n >= 0 and returns n!: no call of
\* factorial_impl is entered again with the argument of a call still active
\* (such a call never returns), the stack is never exhausted and the value
\* returned is n!
C20_FactorialReturns ==
    prog = "factorial" =>
        /\ \A j, k \in 1..Len(fstack) : j < k => fstack[j].x # fstack[k].x
        /\ fpc \notin Exhausted
        /\ fpc = "done" => fres = int(Factorial(fn))

(***************************************************************************)
(* More claims about static_for, static_if chains and for_args.            *)
(***************************************************************************)
\* the bodies that keep the accumulator: they return continue_() or break_()
KeepsAccumulator(b) == b \in {"keep", "throwing"}

\* C21: the state record carries the types of its fields only: over a
\* non-empty sequence a body that keeps the accumulator makes the loop return
\* a value-initialized object of the initial accumulator's type, a function
\* of that type alone and so the same for two initial accumulators of one
\* type; over the empty sequence the loop returns the initial accumulator
\* with its run-time value
C21_ResultDependsOnTypeOnly ==
    /\ (LoopDone /\ xs # <<>> /\ KeepsAccumulator(fbody)) =>
           result = ValueInit(decltype(init))
    /\ (LoopDone /\ xs = <<>>) => result = init

C21_Witness ==
    /\ LoopDone
    /\ fbody = "keep"
    /\ init = int(7)
    /\ Len(xs) = 2
    /\ Len(visits) = 2
    /\ result = int(0)

\* the first then after operation i
NextThen(i) ==
    {j \in (i + 1)..Len(ops) :
        /\ ops[j].op = "then"
        /\ \A m \in (i + 1)..(j - 1) : ops[m].op # "then"}

\* C22: on an open chain whose pending predicate is true, else_if(q) and
\* else_(d) return the chain as it is: q is not evaluated, d is never run,
\* and the next then(h) resolves the chain to h, which every terminal call
\* then runs
C22_TruePendingIgnoresElse ==
    prog = "static_if" =>
        \A i \in 2..Len(ops) :
            (IsImplTrue(Before(i)) /\ ops[i].op \in {"else_if", "else_"}) =>
                /\ hist[i] = Before(i)
                /\ i \notin evaluated
                /\ ~Ran(i)
                /\ \A j \in NextThen(i) :
                       /\ hist[j] = make_static_if_result(j)
                       /\ chain = make_static_if_result(j)
                       /\ OnlyRan(j)

\* static_if(true).else_if(false).else_(d).then(h)(x) has run h
C22_Witness ==
    /\ prog = "static_if"
    /\ Len(ops) = 4
    /\ ops[1].pred
    /\ ops[2].op = "else_if" /\ ~ops[2].pred
    /\ ops[3].op = "else_"
    /\ ops[4].op = "then"
    /\ Len(calls) = 1
    /\ Ran(4) /\ ~Ran(3)

\* C23: the terminal call exists on a resolved chain, where it runs the
\* selected handler, and on an open chain whose pending predicate is false,
\* where it does nothing; an open chain whose pending predicate is true has
\* none, so no terminal call is ever made on it
C23_TerminalCallDefined ==
    (prog = "static_if" /\ ops # <<>>) =>
        /\ Len(calls) < MaxCalls =>
               \A args \in ArgLists :
                   (ENABLED Call(args)) <=>
                       (IsResult(chain) \/ IsImplFalse(chain))
        /\ IsImplTrue(chain) => calls = <<>> /\ invoked = <<>>
        /\ (IsResult(chain) /\ calls # <<>>) => OnlyRan(chain.f)
        /\ (IsImplFalse(chain) /\ calls # <<>>) =>
               /\ invoked = <<>>
               /\ \A k \in 1..Len(rets) : rets[k] = Unit

\* static_if(false).else_if(true).else_(d) has no terminal call
C23_Witness ==
    /\ prog = "static_if"
    /\ Len(ops) = 3
    /\ ~ops[1].pred
    /\ ops[2].op = "else_if" /\ ops[2].pred
    /\ ops[3].op = "else_"
    /\ IsImplTrue(chain)
    /\ ~ENABLED Call(<<>>)

\* what C24 has in common as stated and as amended: one initial state with
\* iteration 0 and action continue goes to body with the first element, the
\* state for a later element is the state body returned for the preceding
\* one, and each step call holds only the elements not yet visited
OneInitialStateThenChained ==
    /\ visits # <<>> =>
           /\ iteration(visits[1].state) = 0
           /\ next_action(visits[1].state) = a_continue
           /\ visits[1].x = xs[1]
    /\ \A k \in 2..Len(visits) :
           /\ visits[k].state = Returned(k - 1)
           /\ iteration(visits[k].state) # 0
    /\ \A k \in 1..Len(frames) :
           /\ frames[k].x = xs[k]
           /\ frames[k].xs = SubSeq(xs, k + 1, Len(xs))
           /\ k <= Len(visits) => frames[k].state = visits[k].state

\* C24 as stated: the accumulator of the initial state is the initial
\* accumulator supplied by the caller
C24_InitialStateHoldsAccumulator ==
    prog = "static_for" =>
        /\ OneInitialStateThenChained
        /\ visits # <<>> => accumulator(visits[1].state) = init

\* C24 amended: the accumulator of the initial state is a value-initialized
\* object of the supplied accumulator's type, which is the supplied
\* accumulator when its type fixes its value
C24_InitialStateHoldsAccumulatorType ==
    prog = "static_for" =>
        /\ OneInitialStateThenChained
        /\ visits # <<>> =>
               /\ visits[1].state = make_state(0, init, a_continue)
               /\ accumulator(visits[1].state) = ValueInit(decltype(init))
               /\ TypeEncoded(init) => accumulator(visits[1].state) = init

C24_Witness ==
    /\ prog = "static_for"
    /\ fbody = "peaa"
    /\ init = sz_v(7)
    /\ xs = <<5, 4, 15>>
    /\ Len(visits) = 3
    /\ accumulator(visits[1].state) = sz_v(7)
    /\ visits[3].state = make_state(2, sz_v(16), a_continue)
    /\ lpc = "return"

\* C25: every state passed to body, and held by a step call, has the action
\* continue; the state a body returned with the action break goes to no
\* later body call
C25_OnlyContinueStatesReachBody ==
    prog = "static_for" =>
        /\ \A k \in 1..Len(visits) : visits[k].state.TAction = a_continue
        /\ \A k \in 1..Len(frames) : frames[k].state.TAction = a_continue
        /\ \A k \in 1..Len(visits) :
               Returned(k).TAction = a_break => k = Len(visits)

C25_Witness ==
    /\ LoopDone
    /\ fbody = "peaa"
    /\ xs = <<5, Sentinel, 4>>
    /\ Len(visits) = 2
    /\ Returned(2).TAction = a_break
    /\ visits[2].state.TAction = a_continue

\* C26: the static_for that recurses by xself(xself, next_state, xs...) and
\* the static_for that recurses through y_combinator, given the same body,
\* accumulator and elements, call body with the same states and elements in
\* the same order, write the same events and return the same accumulator
C26_BothStaticForsAgree ==
    (prog = "static_for" /\ runs > 0 /\ recursion # prev.recursion) =>
        /\ init = prev.init
        /\ IsPrefix(visits, prev.visits)
        /\ IsPrefix(out, prev.out)
        /\ \A k \in 1..Len(frames) :
               frames[k].self = IF recursion = "y_combinator"
                                THEN y_combinator("step") ELSE "step"
        /\ lpc \in {"done", "failed"} =>
               /\ result = prev.result
               /\ visits = prev.visits
               /\ out = prev.out
               /\ thrown = prev.thrown

C26_Witness ==
    /\ LoopDone
    /\ runs = 1
    /\ recursion = "y_combinator"
    /\ prev.recursion = "explicit_self"
    /\ fbody = "p10"
    /\ init = sz_v(0)
    /\ xs = <<10, 20, 30, 40>>
    /\ Len(visits) = 4
    /\ result = sz_v(100)
    /\ prev.result = sz_v(100)

\* what is left of a loop invocation: two units for each element not yet
\* visited, one for each active step call, two before the loop is entered
WorkLeft ==
    2 * (Len(xs) - Len(visits)) + Len(frames)
        + (IF lpc = "idle" THEN 2 ELSE 0)

\* while body is about to run on the k-th element k step calls are active;
\* on the way back there are no more than the elements visited
DepthIsVisits ==
    /\ Len(visits) <= Len(xs)
    /\ WorkLeft >= 0
    /\ lpc = "step" => Len(frames) = Len(visits) + 1
    /\ lpc \in {"return", "unwind"} => Len(frames) <= Len(visits)
    /\ lpc \in {"done", "failed", "idle"} => frames = <<>>

\* C27: a loop invocation over n elements ends after at most n body calls:
\* every step of it lowers WorkLeft, which is never negative; one step call
\* is active for each visited element, and the deepest nesting, reached when
\* the last body call is over, is the number of visited elements
C27_TerminatesOneCallPerElement ==
    [][prog = "static_for" =>
          /\ DepthIsVisits
          /\ DepthIsVisits'
          /\ (runs' = runs /\ rt' = rt) => WorkLeft' < WorkLeft
          /\ (lpc = "step" /\ lpc' # "step") =>
                 /\ Len(frames') = Len(visits')
                 /\ lpc' \in {"return", "unwind"}]_vars

C27_Witness ==
    /\ prog = "static_for"
    /\ Len(xs) = 3
    /\ lpc = "return"
    /\ Len(visits) = 3
    /\ Len(frames) = 3

\* C28: static_if, then, else_if and else_ run no handler, they only store
\* one; a terminal call on a resolved chain runs the stored handler once,
\* with the arguments of the call, and no handler runs otherwise
C28_HandlersRunAtTerminalCallOnly ==
    [][prog = "static_if" =>
          /\ calls' = calls => invoked' = invoked
          /\ ops' # ops => (invoked' = invoked /\ invoked = <<>>)
          /\ calls' # calls =>
                 /\ ops' = ops
                 /\ Len(calls') = Len(calls) + 1
                 /\ IF IsResult(chain)
                    THEN invoked' =
                             Append(invoked,
                                    [h |-> chain.f,
                                     args |-> calls'[Len(calls')],
                                     call |-> Len(calls')])
                    ELSE invoked' = invoked]_vars

\* static_if(true).then(h) was built and h has not run; it runs on the call
C28_Witness ==
    /\ prog = "static_if"
    /\ Len(ops) = 2
    /\ chain = make_static_if_result(2)
    /\ Len(calls) = 2
    /\ Len(invoked) = 2
    /\ invoked[1].h = 2 /\ invoked[1].call = 1
    /\ invoked[2].h = 2 /\ invoked[2].call = 2

\* C29: for_args(f, x1, ..., xn) calls f on x1, ..., xn in that order, once
\* each, makes no call when n = 0 and returns nothing;
\* for_args(print, "hello", 1, 2, 3) prints hello 1 2 3
C29_ForArgsLeftToRight ==
    prog = "for_args" =>
        /\ IsPrefix(fa_calls, fa_xs)
        /\ Len(fa_calls) = Len(fa_done)
        /\ fa_pc = "done" =>
               /\ fa_calls = fa_xs
               /\ fa_ret = Void
               /\ fa_xs = DocumentedArgs =>
                      fa_calls = <<"hello", "1", "2", "3">>
        /\ fa_pc # "done" => fa_ret = NoResult
        /\ fa_xs = <<>> => fa_calls = <<>>

C29_Witness ==
    /\ prog = "for_args"
    /\ fa_pc = "done"
    /\ fa_xs = DocumentedArgs
    /\ fa_calls = <<"hello", "1", "2", "3">>
    /\ fa_ret = Void

\* what C30 says of the chain an operation is invoked on: that chain, and
\* every chain value obtained before it, is after the operation what it was
\* before and selects the same handler; the operation returns a chain value
ReceiversUnchanged ==
    /\ Len(hist') = Len(hist) + 1
    /\ hist'[Len(hist')] \in ChainValues
    /\ \A i \in 1..Len(hist) :
           /\ hist'[i] = hist[i]
           /\ objs'[i] = objs[i]
           /\ CallInvokes(hist'[i]) = CallInvokes(hist[i])

Extended == prog = "static_if" /\ ops # <<>> /\ ops' # ops

\* C30 as stated: then, else_if and else_ leave the chain they are invoked
\* on unchanged and return a new chain value
C30_ExtensionReturnsNewChain ==
    [][Extended =>
          /\ ReceiversUnchanged
          /\ \A i \in 1..Len(objs) : objs'[Len(objs')] # objs[i]]_vars

\* C30 amended: then, else_if and else_ leave the chain they are invoked on
\* unchanged; an operation that acts (then on a true pending predicate,
\* else_if and else_ on a false one) returns a new chain value, an operation
\* that is ignored returns a reference to the chain object it was invoked on
C30_ExtensionLeavesReceiver ==
    [][Extended =>
          /\ ReceiversUnchanged
          /\ LET op == ops'[Len(ops')].op
                 acts == \/ IsImplTrue(chain) /\ op = "then"
                         \/ IsImplFalse(chain) /\ op \in {"else_if", "else_"}
             IN IF acts
                THEN \A i \in 1..Len(objs) : objs'[Len(objs')] # objs[i]
                ELSE /\ objs'[Len(objs')] = objs[Len(objs)]
                     /\ hist'[Len(hist')] = chain]_vars

\* static_if(false).then(h).else_(d): then returned the object static_if
\* made, else_ a new one
C30_Witness ==
    /\ prog = "static_if"
    /\ Len(ops) = 3
    /\ ops[2].op = "then"
    /\ ops[3].op = "else_"
    /\ hist = <<static_if_impl(FALSE), static_if_impl(FALSE),
                make_static_if_result(3)>>
    /\ objs = <<1, 1, 3>>

====
